---- MODULE Spec2Model ----
(***************************************************************************)
(* TPNet: discrete-time movement of cars and passengers over a weighted    *)
(* directed network of stations (src/tpnet.py: Net, Car, Passenger).       *)
(*                                                                         *)
(* Vertices are the indices 0 .. NumVertices-1.  The graph is the pair     *)
(* (g, vweight): g is the edge list in Graph.edges() order and vweight the *)
(* weight of each edge.  Car and Passenger objects are identified by their *)
(* id; `cars` and `pgrs` hold the attributes of every object created.      *)
(***************************************************************************)
EXTENDS Integers, Sequences, FiniteSets, TLC

\* ------------------------------------------------------------------ bounds
NumVertices == 3
MaxWeight == 3
MaxCars == 2
MaxPgrs == 2
MaxEntities == 3
MaxRouteLen == 2
MaxSize == 1
MaxAmount == 2

Vertices == 0 .. (NumVertices - 1)
Infinity == NumVertices * MaxWeight + 1

\* --------------------------------------------------------------- sequences
SeqToSet(s) == {s[i] : i \in 1 .. Len(s)}
Contains(s, x) == \E i \in 1 .. Len(s) : s[i] = x
Last(s) == s[Len(s)]
RemoveAt(s, i) == SubSeq(s, 1, i - 1) \o SubSeq(s, i + 1, Len(s))

\* ------------------------------------------------------------------- graph
\* All ordered pairs of distinct vertices, by source then destination: the
\* order in which Graph.edges() yields the edges of an edge list given so.
RECURSIVE PairsFrom(_, _)
PairsFrom(s, t) ==
    IF s >= NumVertices THEN <<>>
    ELSE IF t >= NumVertices THEN PairsFrom(s + 1, 0)
    ELSE IF s = t THEN PairsFrom(s, t + 1)
    ELSE <<(<<s, t>>)>> \o PairsFrom(s, t + 1)

AllPairs == PairsFrom(0, 0)

\* The line network 0 - 1 - 2, each link an edge in both directions.
LineEdges == << <<0, 1>>, <<1, 0>>, <<1, 2>>, <<2, 1>> >>
UnitWeights(E) == [i \in 1 .. Len(E) |-> 1]

\* Graph.edge(s, t): the index of the edge s -> t in E, 0 if there is none.
EdgeIndex(E, s, t) ==
    IF \E i \in 1 .. Len(E) : E[i] = <<s, t>>
    THEN CHOOSE i \in 1 .. Len(E) : E[i] = <<s, t>>
    ELSE 0

\* Graph.get_out_neighbors(v)
get_out_neighbors(E, v) == {E[i][2] : i \in {j \in 1 .. Len(E) : E[j][1] = v}}

\* ---------------------------------------------------------------- dijkstra
\* gt.search.dijkstra_iterator(g, vweight, source, array=True): the edges
\* relaxed by a Dijkstra search from `source`, in the order of relaxation.
\* A vertex whose tentative distance is improved twice is the destination
\* of two edges of the result.  Among vertices of equal tentative distance
\* the one discovered first is examined first.
MinIndex(queue, dist) ==
    CHOOSE i \in 1 .. Len(queue) :
        /\ \A j \in 1 .. Len(queue) : dist[queue[i]] <= dist[queue[j]]
        /\ \A j \in 1 .. (i - 1) : dist[queue[j]] > dist[queue[i]]

RECURSIVE RelaxOut(_, _, _, _, _)
RelaxOut(E, W, u, k, acc) ==
    IF k > Len(E) THEN acc
    ELSE IF E[k][1] = u /\ acc.dist[u] + W[k] < acc.dist[E[k][2]]
    THEN LET v == E[k][2]
         IN RelaxOut(E, W, u, k + 1,
                [dist |-> [acc.dist EXCEPT ![v] = acc.dist[u] + W[k]],
                 queue |-> IF acc.dist[v] = Infinity
                           THEN Append(acc.queue, v) ELSE acc.queue,
                 relaxed |-> Append(acc.relaxed, E[k])])
    ELSE RelaxOut(E, W, u, k + 1, acc)

RECURSIVE DijkstraLoop(_, _, _)
DijkstraLoop(E, W, acc) ==
    IF acc.queue = <<>> THEN acc.relaxed
    ELSE LET i == MinIndex(acc.queue, acc.dist)
             u == acc.queue[i]
         IN DijkstraLoop(E, W,
                RelaxOut(E, W, u, 1, [acc EXCEPT !.queue = RemoveAt(acc.queue, i)]))

dijkstra_iterator(E, W, source) ==
    DijkstraLoop(E, W,
        [dist |-> [v \in Vertices |-> IF v = source THEN 0 ELSE Infinity],
         queue |-> <<source>>,
         relaxed |-> <<>>])

\* --------------------------------------------------------------- get_route
\* The result of a get_route call that raised RuntimeError('cannot find
\* route'); a route that is returned holds its destination at least.
RouteNotFound == <<>>

\* One pass of `for check_src, check_dest in sg` (no break: the pass goes on
\* with the new target after a match).
RECURSIVE RouteScan(_, _, _)
RouteScan(sg, k, acc) ==
    IF k > Len(sg) THEN acc
    ELSE IF sg[k][2] = acc.target
    THEN RouteScan(sg, k + 1,
            [route |-> <<sg[k][1]>> \o acc.route,
             target |-> sg[k][1],
             found |-> TRUE])
    ELSE RouteScan(sg, k + 1, acc)

\* The while loop returning what it has built where the code raises.
RECURSIVE RouteLoop_noraise(_, _, _, _)
RouteLoop_noraise(sg, source, route, target) ==
    IF route[1] = source THEN route
    ELSE LET r == RouteScan(sg, 1, [route |-> route, target |-> target, found |-> FALSE])
         IN IF ~r.found THEN route
            ELSE RouteLoop_noraise(sg, source, r.route, r.target)

RECURSIVE RouteLoop(_, _, _, _)
RouteLoop(sg, source, route, target) ==
    IF route[1] = source THEN route
    ELSE LET r == RouteScan(sg, 1, [route |-> route, target |-> target, found |-> FALSE])
         IN IF ~r.found THEN RouteNotFound
            ELSE RouteLoop(sg, source, r.route, r.target)

\* get_route with its arguments taken in the wrong order.
get_route_swapped(E, W, src, dst) ==
    RouteLoop(dijkstra_iterator(E, W, dst), dst, <<src>>, src)

\* Net.get_route(src, dst), src and dst vertex indices
get_route(E, W, src, dst) ==
    RouteLoop(dijkstra_iterator(E, W, src), src, <<dst>>, dst)

\* ------------------------------------------------------------------- state
VARIABLES
    ontrack,        \* the cars the caller built and gave to Net(ontrack=...)
    g,              \* Net.g: the edge list, in Graph.edges() order
    vweight,        \* Net.vweight: the weight of each edge of g
    vinside,        \* Net.vinside: vertex -> deque of waiting passengers
    vontrack,       \* Net.vontrack: vertex -> deque of parked cars
    venroute,       \* Net.venroute: edge index -> deque of cars in transit
    allcars,        \* Net.allcars: the ids registered
    allpassengers,  \* Net.allpassengers: the ids registered
    cars,           \* id -> attributes of every Car object created
    pgrs,           \* id -> attributes of every Passenger object created
    car_total,      \* Car.total[0]
    pgr_total,      \* Passenger.total[0]
    err,            \* the exception the last call raised, "none" if it returned
    query,          \* get_route called on its own: arguments and result
    pgr_dst,        \* id -> the last vertex of the route the Passenger was built with
    tick            \* the caller's loop: the call that is due, "free" if it keeps no order

vars == <<ontrack, g, vweight, vinside, vontrack, venroute, allcars, allpassengers,
          cars, pgrs, car_total, pgr_total, err, query, pgr_dst, tick>>

\* --------------------------------------------------------------- Passenger
\* Passenger.__init__(route): routes are deques of vertex indices, so
\* namelup is False; cur is the popped front of the route.
Passenger_init(route) == [route |-> Tail(route), cur |-> Head(route)]

Passenger_get_next(p) == IF p.route # <<>> THEN Head(p.route) ELSE p.cur

\* Passenger.take_next: the passenger after the pop (nothing to pop: no change)
Passenger_take_next(p) == IF p.route # <<>> THEN [p EXCEPT !.route = Tail(@)] ELSE p

Passenger_get_last(p) == IF p.route # <<>> THEN Last(p.route) ELSE p.cur

Passenger_chcur(p, newcur) == [p EXCEPT !.cur = newcur]

\* --------------------------------------------------------------------- Car
\* The default capacity of Car.__init__.
DefaultSize == 20

\* '{0}-{1}'.format(s, t), the position of a car in transit on edge s -> t:
\* a value distinct from every vertex index and from every other edge's.
EdgeCur(s, t) == NumVertices * (s + 1) + t

\* Car.__init__(route, size, repeat=...): cur is the popped front of the route.
Car_init(route, size, repeat) ==
    [route |-> Tail(route), cur |-> Head(route), size |-> size,
     inside |-> <<>>, can_move |-> TRUE, repeat |-> repeat]

Car_get_next(car) == IF car.route # <<>> THEN Head(car.route) ELSE car.cur

\* take_next of a repeating car appending the vertex without popping it.
Car_take_next_nopop(car) ==
    [car EXCEPT !.route = IF car.repeat THEN Append(@, Head(@)) ELSE Tail(@)]

\* Car.take_next: the car after the pop; the caller has the popped vertex as
\* Head(car.route).  Raises IndexError on an empty route (the callers test).
Car_take_next(car) ==
    [car EXCEPT !.route = IF car.repeat THEN Append(Tail(@), Head(@)) ELSE Tail(@)]

Car_get_last(car) == IF car.route # <<>> THEN Last(car.route) ELSE car.cur

\* chcur advancing the passengers whatever update_inside is.
Car_chcur_always(N, c, newcur, update_inside) ==
    LET ins == SeqToSet(N.cars[c].inside)
    IN [N EXCEPT
          !.cars[c].cur = newcur,
          !.pgrs = [p \in DOMAIN N.pgrs |->
                      IF p \in ins
                      THEN Passenger_take_next(Passenger_chcur(N.pgrs[p], newcur))
                      ELSE N.pgrs[p]]]

\* Car.chcur changing the cur of the car and of nobody onboard.
Car_chcur_alone(N, c, newcur, update_inside) == [N EXCEPT !.cars[c].cur = newcur]

\* Car.chcur(newcur, update_inside): N is the whole net, c the car's id.
Car_chcur(N, c, newcur, update_inside) ==
    LET ins == SeqToSet(N.cars[c].inside)
    IN [N EXCEPT
          !.cars[c].cur = newcur,
          !.pgrs = [p \in DOMAIN N.pgrs |->
                      IF p \in ins
                      THEN IF update_inside
                           THEN Passenger_take_next(Passenger_chcur(N.pgrs[p], newcur))
                           ELSE Passenger_chcur(N.pgrs[p], newcur)
                      ELSE N.pgrs[p]]]

\* --------------------------------------------------------------- move_cars
\* The net as one value, for the handlers that run loops over it.
NetNow ==
    [vinside |-> vinside, vontrack |-> vontrack, venroute |-> venroute,
     allcars |-> allcars, allpassengers |-> allpassengers,
     cars |-> cars, pgrs |-> pgrs,
     car_total |-> car_total, pgr_total |-> pgr_total,
     err |-> "none", buffer |-> <<>>]

\* move_cars_to_vertices without `car.can_move = False`.
move_cars_to_vertices_unlocked(N, c) ==
    IF N.cars[c].route = <<>> THEN [N EXCEPT !.err = "IndexError"]
    ELSE LET nextvert == Head(N.cars[c].route)
             N1 == [N EXCEPT !.cars[c] = Car_take_next(@),
                             !.vontrack[nextvert] = Append(@, c)]
         IN Car_chcur(N1, c, nextvert, TRUE)

\* move_cars_to_vertices: car c was popped off its edge queue.
move_cars_to_vertices(N, c) ==
    IF N.cars[c].route = <<>> THEN [N EXCEPT !.err = "IndexError"]
    ELSE LET nextvert == Head(N.cars[c].route)
             N1 == [N EXCEPT !.cars[c] = Car_take_next(@),
                             !.vontrack[nextvert] = Append(@, c)]
             N2 == Car_chcur(N1, c, nextvert, TRUE)
         IN [N2 EXCEPT !.cars[c].can_move = FALSE]

\* move_cars_to_edges: car c was popped off vontrack[v].
move_cars_to_edges(N, c, v) ==
    LET nextvert == Car_get_next(N.cars[c])
    IN IF nextvert = v
       THEN IF c \in N.allcars
            THEN [N EXCEPT !.allcars = @ \ {c}]
            ELSE [N EXCEPT !.err = "KeyError"]
       ELSE IF nextvert \in get_out_neighbors(g, v)
       THEN LET N1 == [N EXCEPT !.venroute[EdgeIndex(g, v, nextvert)] = Append(@, c)]
                N2 == Car_chcur(N1, c, EdgeCur(v, nextvert), FALSE)
            IN [N2 EXCEPT !.cars[c].can_move = FALSE]
       ELSE [N EXCEPT !.err = "RuntimeWarning"]

\* for _ in range(len(self.venroute[e])), k iterations left
RECURSIVE EdgeQueueLoop(_, _, _)
EdgeQueueLoop(N, e, k) ==
    IF k = 0 \/ N.err # "none" THEN N
    ELSE LET c == Head(N.venroute[e])
             N1 == [N EXCEPT !.venroute[e] = Tail(@)]
         IN EdgeQueueLoop(
                IF N1.cars[c].can_move
                THEN move_cars_to_vertices(N1, c)
                ELSE [N1 EXCEPT !.venroute[e] = Append(@, c)],
                e, k - 1)

\* for e in self.g.edges()
RECURSIVE EdgesLoop(_, _)
EdgesLoop(N, e) ==
    IF e > Len(g) \/ N.err # "none" THEN N
    ELSE EdgesLoop(EdgeQueueLoop(N, e, Len(N.venroute[e])), e + 1)

\* The loop over vontrack[v] reading the head car without `popleft`.
RECURSIVE VertexQueueLoop_peek(_, _, _)
VertexQueueLoop_peek(N, v, k) ==
    IF k = 0 \/ N.err # "none" THEN N
    ELSE LET c == Head(N.vontrack[v])
         IN VertexQueueLoop_peek(
                IF N.cars[c].can_move
                THEN move_cars_to_edges(N, c, v)
                ELSE [N EXCEPT !.vontrack[v] = Append(@, c)],
                v, k - 1)

\* for _ in range(len(self.vontrack[v])), k iterations left
RECURSIVE VertexQueueLoop(_, _, _)
VertexQueueLoop(N, v, k) ==
    IF k = 0 \/ N.err # "none" THEN N
    ELSE LET c == Head(N.vontrack[v])
             N1 == [N EXCEPT !.vontrack[v] = Tail(@)]
         IN VertexQueueLoop(
                IF N1.cars[c].can_move
                THEN move_cars_to_edges(N1, c, v)
                ELSE [N1 EXCEPT !.vontrack[v] = Append(@, c)],
                v, k - 1)

\* for v in self.g.get_vertices()
RECURSIVE VerticesLoop(_, _)
VerticesLoop(N, v) ==
    IF v >= NumVertices \/ N.err # "none" THEN N
    ELSE VerticesLoop(VertexQueueLoop(N, v, Len(N.vontrack[v])), v + 1)

\* The cars in any vontrack or venroute queue.
QueuedCars(N) ==
    UNION {SeqToSet(N.vontrack[v]) : v \in Vertices}
    \cup UNION {SeqToSet(N.venroute[e]) : e \in DOMAIN N.venroute}

\* move_cars without its unlock loops.
UnlockAll_skipped(N) == N

\* The unlock loops run over the vertices only.
UnlockAll_parked(N) ==
    [N EXCEPT !.cars = [c \in DOMAIN N.cars |->
                          IF \E v \in Vertices : Contains(N.vontrack[v], c)
                          THEN [N.cars[c] EXCEPT !.can_move = TRUE]
                          ELSE N.cars[c]]]

\* unlock all cars for next step
UnlockAll(N) ==
    [N EXCEPT !.cars = [c \in DOMAIN N.cars |->
                          IF c \in QueuedCars(N)
                          THEN [N.cars[c] EXCEPT !.can_move = TRUE]
                          ELSE N.cars[c]]]

\* Net.move_cars(unlock): an exception ends the call where it is raised.
\* The body never reads `unlock`: the unlock loops run whenever the two
\* moving phases finish.
move_cars(N, unlock) ==
    LET N1 == VerticesLoop(EdgesLoop(N, 1), 0)
    IN IF N1.err = "none" THEN UnlockAll(N1) ELSE N1

\* --------------------------------------------------------------- ptransfer
\* The loop of peject ejecting every passenger.
RECURSIVE PejectLoop_all(_, _, _)
PejectLoop_all(N, c, k) ==
    IF k = 0 THEN N
    ELSE LET p == Head(N.cars[c].inside)
         IN PejectLoop_all(
                [N EXCEPT !.cars[c].inside = Tail(@), !.buffer = Append(@, p)],
                c, k - 1)

\* The loop of Car.peject keeping every passenger onboard.
PejectLoop_none(N, c, k) == N

\* Car.peject, the loop over `inside`: k iterations left.  A passenger stays
\* if its next hop is in the car's route, else it goes to the buffer.
RECURSIVE PejectLoop(_, _, _)
PejectLoop(N, c, k) ==
    IF k = 0 THEN N
    ELSE LET p == Head(N.cars[c].inside)
             N1 == [N EXCEPT !.cars[c].inside = Tail(@)]
         IN PejectLoop(
                IF Contains(N1.cars[c].route, Passenger_get_next(N1.pgrs[p]))
                THEN [N1 EXCEPT !.cars[c].inside = Append(@, p)]
                ELSE [N1 EXCEPT !.buffer = Append(@, p)],
                c, k - 1)

\* Car.peject(current)
Car_peject(N, c, current) ==
    IF N.cars[c].cur # current THEN [N EXCEPT !.err = "RuntimeError"]
    ELSE PejectLoop(N, c, Len(N.cars[c].inside))

\* for car in self.vontrack[v]: ptransfer = np.append(ptransfer, car.peject(v))
RECURSIVE EjectLoop(_, _, _)
EjectLoop(N, v, i) ==
    IF i > Len(N.vontrack[v]) \/ N.err # "none" THEN N
    ELSE EjectLoop(Car_peject(N, N.vontrack[v][i], v), v, i + 1)

\* put_passenger_inside testing `>` where the code tests `>=`.
put_passenger_inside_over(N, p, c, pnextvert) ==
    IF ~(Len(N.cars[c].inside) > N.cars[c].size)
    THEN IF Contains(N.cars[c].route, pnextvert)
         THEN [net |-> [N EXCEPT !.cars[c].inside = Append(@, p)], found |-> TRUE]
         ELSE [net |-> N, found |-> FALSE]
    ELSE [net |-> N, found |-> FALSE]

\* put_passenger_inside without the test for a full car.
put_passenger_inside_nocheck(N, p, c, pnextvert) ==
    IF Contains(N.cars[c].route, pnextvert)
    THEN [net |-> [N EXCEPT !.cars[c].inside = Append(@, p)], found |-> TRUE]
    ELSE [net |-> N, found |-> FALSE]

\* put_passenger_inside(p, car, v): the net and the value returned (a call
\* that falls off the end returns None, which `if found` reads as False).
put_passenger_inside(N, p, c, pnextvert) ==
    IF ~(Len(N.cars[c].inside) >= N.cars[c].size)
    THEN IF Contains(N.cars[c].route, pnextvert)
         THEN [net |-> [N EXCEPT !.cars[c].inside = Append(@, p)], found |-> TRUE]
         ELSE [net |-> N, found |-> FALSE]
    ELSE [net |-> N, found |-> FALSE]

\* The loop over the parked cars without its `break`.
RECURSIVE BoardLoop_nobreak(_, _, _, _, _)
BoardLoop_nobreak(N, p, v, pnextvert, i) ==
    IF i > Len(N.vontrack[v]) THEN [net |-> N, found |-> FALSE]
    ELSE LET r == put_passenger_inside(N, p, N.vontrack[v][i], pnextvert)
             rest == BoardLoop_nobreak(r.net, p, v, pnextvert, i + 1)
         IN [net |-> rest.net, found |-> r.found \/ rest.found]

\* for car in self.vontrack[v]: found = put_passenger_inside(...); break if found
RECURSIVE BoardLoop(_, _, _, _, _)
BoardLoop(N, p, v, pnextvert, i) ==
    IF i > Len(N.vontrack[v]) THEN [net |-> N, found |-> FALSE]
    ELSE LET r == put_passenger_inside(N, p, N.vontrack[v][i], pnextvert)
         IN IF r.found THEN r ELSE BoardLoop(r.net, p, v, pnextvert, i + 1)

\* for _ in range(len(self.vinside[v])), k iterations left
RECURSIVE WaitingLoop(_, _, _)
WaitingLoop(N, v, k) ==
    IF k = 0 \/ N.err # "none" THEN N
    ELSE LET p == Head(N.vinside[v])
             N1 == [N EXCEPT !.vinside[v] = Tail(@)]
             pnextvert == Passenger_get_next(N1.pgrs[p])
         IN WaitingLoop(
                IF pnextvert # v
                THEN LET r == BoardLoop(N1, p, v, pnextvert, 1)
                     IN IF r.found THEN r.net
                        ELSE [r.net EXCEPT !.vinside[v] = Append(@, p)]
                ELSE IF p \in N1.allpassengers
                THEN [N1 EXCEPT !.allpassengers = @ \ {p}]
                ELSE [N1 EXCEPT !.err = "KeyError"],
                v, k - 1)

\* The body of `for v in targets` putting the ejected passengers at the
\* front of the waiting queue.
ptransfer_at_front(N, v) ==
    LET N1 == EjectLoop([N EXCEPT !.buffer = <<>>], v, 1)
        N2 == WaitingLoop(N1, v, Len(N1.vinside[v]))
    IN IF N2.err # "none" THEN N2
       ELSE [N2 EXCEPT !.vinside[v] = N2.buffer \o @, !.buffer = <<>>]

\* The body of `for v in targets`: eject, then the waiting queue, then the
\* buffer of ejected passengers goes to the back of the waiting queue.
ptransfer_at(N, v) ==
    LET N1 == EjectLoop([N EXCEPT !.buffer = <<>>], v, 1)
        N2 == WaitingLoop(N1, v, Len(N1.vinside[v]))
    IN IF N2.err # "none" THEN N2
       ELSE [N2 EXCEPT !.vinside[v] = @ \o N2.buffer, !.buffer = <<>>]

RECURSIVE TargetsLoop(_, _, _)
TargetsLoop(N, targets, i) ==
    IF i > Len(targets) \/ N.err # "none" THEN N
    ELSE TargetsLoop(ptransfer_at(N, targets[i]), targets, i + 1)

\* self.g.get_vertices()
get_vertices == [i \in 1 .. NumVertices |-> i - 1]

\* Net.ptransfer(targets): `if targets` is false for None and for an empty
\* list alike (both written <<>> here), and then every vertex is visited.
ptransfer(N, targets) ==
    TargetsLoop(N, IF targets # <<>> THEN targets ELSE get_vertices, 1)

\* ------------------------------------------------------------------- spawn
\* The route of one iteration of the spawn loops.  kw is the keyword
\* arguments ("route": kw.route, "dst": kw.dst, "random": neither); 'dst' is
\* popped from kwargs by the first iteration that reads it, so from the
\* second on the destination is np.random.choice's, here rnd[i].
SpawnRoute(target, kw, rnd, i) ==
    IF kw.kind = "route" THEN kw.route
    ELSE IF kw.kind = "dst" /\ i = 1 THEN get_route(g, vweight, target, kw.dst)
    ELSE get_route(g, vweight, target, rnd[i])

\* spawn_car with a Car.__init__ that does not advance Car.total.
RECURSIVE spawn_car_sameid(_, _, _, _, _, _)
spawn_car_sameid(N, target, amount, kw, rnd, i) ==
    IF i > amount \/ N.err # "none" THEN N
    ELSE LET route == SpawnRoute(target, kw, rnd, i)
             id == N.car_total
         IN spawn_car_sameid(
                IF route = RouteNotFound THEN [N EXCEPT !.err = "RuntimeError"]
                ELSE [N EXCEPT
                        !.cars = [c \in (DOMAIN N.cars) \cup {id} |->
                                    IF c = id THEN Car_init(route, DefaultSize, FALSE)
                                    ELSE N.cars[c]],
                        !.vontrack[target] = Append(@, id),
                        !.allcars = @ \cup {id}],
                target, amount, kw, rnd, i + 1)

\* Net.spawn_car(target, amount=..., route=... | dst=...), iteration i
RECURSIVE spawn_car(_, _, _, _, _, _)
spawn_car(N, target, amount, kw, rnd, i) ==
    IF i > amount \/ N.err # "none" THEN N
    ELSE LET route == SpawnRoute(target, kw, rnd, i)
             id == N.car_total
         IN spawn_car(
                IF route = RouteNotFound THEN [N EXCEPT !.err = "RuntimeError"]
                ELSE [N EXCEPT
                        !.cars = [c \in (DOMAIN N.cars) \cup {id} |->
                                    IF c = id THEN Car_init(route, DefaultSize, FALSE)
                                    ELSE N.cars[c]],
                        !.car_total = @ + 1,
                        !.vontrack[target] = Append(@, id),
                        !.allcars = @ \cup {id}],
                target, amount, kw, rnd, i + 1)

\* Net.spawn_passenger(target, amount=..., route=... | dst=...), iteration i
RECURSIVE spawn_passenger(_, _, _, _, _, _)
spawn_passenger(N, target, amount, kw, rnd, i) ==
    IF i > amount \/ N.err # "none" THEN N
    ELSE LET route == SpawnRoute(target, kw, rnd, i)
             id == N.pgr_total
         IN spawn_passenger(
                IF route = RouteNotFound THEN [N EXCEPT !.err = "RuntimeError"]
                ELSE [N EXCEPT
                        !.pgrs = [p \in (DOMAIN N.pgrs) \cup {id} |->
                                    IF p = id THEN Passenger_init(route)
                                    ELSE N.pgrs[p]],
                        !.pgr_total = @ + 1,
                        !.vinside[target] = Append(@, id),
                        !.allpassengers = @ \cup {id}],
                target, amount, kw, rnd, i + 1)

\* ------------------------------------------------------------------ inputs
RECURSIVE Routes(_)
Routes(n) ==
    IF n = 0 THEN {}
    ELSE {<<v>> : v \in Vertices}
         \cup {Append(r, v) : r \in Routes(n - 1), v \in Vertices}

\* The `route` argument of a spawn at `target`: "Route must include current
\* station", which the constructors take to be its first element.
RouteInputs(target) == {r \in Routes(MaxRouteLen) : Head(r) = target}

KwInputs(target) ==
    {[kind |-> "route", route |-> r, dst |-> target] : r \in RouteInputs(target)}
    \cup {[kind |-> "dst", route |-> <<>>, dst |-> d] : d \in Vertices}
    \cup {[kind |-> "random", route |-> <<>>, dst |-> target]}

\* np.random.choice(np.delete(self.g.get_vertices(), target)) for each
\* iteration that draws a destination (the others are given one value).
DrawsDestination(kw, i) == kw.kind = "random" \/ (kw.kind = "dst" /\ i > 1)

RandomInputs(target, amount, kw) ==
    {rnd \in [1 .. amount -> Vertices \ {target}] :
        \A i \in 1 .. amount :
            ~DrawsDestination(kw, i) => \A v \in Vertices \ {target} : rnd[i] <= v}

\* The `targets` argument of ptransfer: absent or empty, one vertex, or two.
TargetInputs ==
    {<<>>} \cup {<<v>> : v \in Vertices}
    \cup {t \in {<<v, w>> : v \in Vertices, w \in Vertices} : t[1] # t[2]}

\* The routes of the cars the caller builds: the line end to end, and there
\* and back (a round for a car that repeats its route).
CallerRoutes == {<<0, 1, 2>>, <<0, 1, 0>>}

\* The `ontrack` argument of Net: no car, or one car built by the caller
\* with Car(route, size=..., repeat=...) and parked where its route starts.
OntrackInputs ==
    {<<>>} \cup {<<[route |-> r, size |-> s, repeat |-> rep]>> :
                    r \in CallerRoutes, s \in 0 .. MaxSize, rep \in BOOLEAN}

\* No get_route call of its own is under way.
NoQuery == [state |-> "none", src |-> 0, dst |-> 0, route |-> <<>>]

\* -------------------------------------------------------------------- Init
\* Net.__init__(size, names, edges, weight=..., ontrack=...): the registries
\* start empty; the cars of `ontrack` are not entered in allcars.
NetInit(E, W, given) ==
    /\ ontrack = given
    /\ g = E
    /\ vweight = W
    /\ vinside = [v \in Vertices |-> <<>>]
    /\ vontrack = [v \in Vertices |->
                     IF given # <<>> /\ Head(given[1].route) = v THEN <<0>> ELSE <<>>]
    /\ venroute = [e \in 1 .. Len(E) |-> <<>>]
    /\ allcars = {}
    /\ allpassengers = {}
    /\ cars = [c \in 0 .. (Len(given) - 1) |->
                 Car_init(given[c + 1].route, given[c + 1].size, given[c + 1].repeat)]
    /\ pgrs = <<>>
    /\ car_total = Len(given)
    /\ pgr_total = 0
    /\ err = "none"
    /\ pgr_dst = <<>>

Init ==
    /\ \E given \in OntrackInputs : NetInit(LineEdges, UnitWeights(LineEdges), given)
    /\ query = NoQuery
    /\ tick = "free"

\* ----------------------------------------------------------------- actions
\* The net after a call.
Becomes(N) ==
    /\ vinside' = N.vinside
    /\ vontrack' = N.vontrack
    /\ venroute' = N.venroute
    /\ allcars' = N.allcars
    /\ allpassengers' = N.allpassengers
    /\ cars' = N.cars
    /\ pgrs' = N.pgrs
    /\ car_total' = N.car_total
    /\ pgr_total' = N.pgr_total
    /\ pgr_dst' = [p \in DOMAIN N.pgrs |->
                     IF p \in DOMAIN pgr_dst THEN pgr_dst[p]
                     ELSE Passenger_get_last(N.pgrs[p])]
    /\ UNCHANGED <<ontrack, g, vweight, query>>

SpawnCar ==
    \E target \in Vertices, amount \in 1 .. MaxAmount :
      \E kw \in KwInputs(target) :
       \E rnd \in RandomInputs(target, amount, kw) :
        /\ car_total + amount <= MaxCars
        /\ car_total + pgr_total + amount <= MaxEntities
        /\ Becomes(spawn_car(NetNow, target, amount, kw, rnd, 1))
        /\ err' = spawn_car(NetNow, target, amount, kw, rnd, 1).err
        /\ UNCHANGED tick

SpawnPassenger ==
    \E target \in Vertices, amount \in 1 .. MaxAmount :
      \E kw \in KwInputs(target) :
       \E rnd \in RandomInputs(target, amount, kw) :
        /\ pgr_total + amount <= MaxPgrs
        /\ car_total + pgr_total + amount <= MaxEntities
        /\ Becomes(spawn_passenger(NetNow, target, amount, kw, rnd, 1))
        /\ err' = spawn_passenger(NetNow, target, amount, kw, rnd, 1).err
        /\ UNCHANGED tick

\* One call net.move_cars(unlock=...); err is the exception it raised.
MoveCarsCall(unlock) ==
    /\ Becomes(move_cars(NetNow, unlock))
    /\ err' = move_cars(NetNow, unlock).err
    /\ UNCHANGED tick

MoveCars == \E unlock \in BOOLEAN : MoveCarsCall(unlock)

PTransfer ==
    \E targets \in TargetInputs :
        /\ Becomes(ptransfer(NetNow, targets))
        /\ err' = ptransfer(NetNow, targets).err
        /\ UNCHANGED tick

Next == SpawnCar \/ SpawnPassenger \/ MoveCars \/ PTransfer

Spec == Init /\ [][Next]_vars

\* ------------------------------------------------------------ observation
\* The places of car c in the queues: (0, vertex, position) in a vontrack
\* queue, (1, edge, position) in a venroute queue.
CarPlaces(vt, er, c) ==
    UNION {{<<0, v, i>> : i \in {j \in 1 .. Len(vt[v]) : vt[v][j] = c}} : v \in DOMAIN vt}
    \cup UNION {{<<1, e, i>> : i \in {j \in 1 .. Len(er[e]) : er[e][j] = c}} : e \in DOMAIN er}

\* The places of passenger p: (0, vertex, position) in a vinside queue,
\* (1, car, position) in the `inside` of a car of the set `held`.
PgrPlaces(vi, cs, held, p) ==
    UNION {{<<0, v, i>> : i \in {j \in 1 .. Len(vi[v]) : vi[v][j] = p}} : v \in DOMAIN vi}
    \cup UNION {{<<1, c, i>> : i \in {j \in 1 .. Len(cs[c].inside) : cs[c].inside[j] = p}} :
                  c \in held}

Parked(vt, c) == \E v \in DOMAIN vt : Contains(vt[v], c)
OnEdge(er, c) == \E e \in DOMAIN er : Contains(er[e], c)

\* The cars the caller built (never entered in allcars) and the cars that
\* spawn_car created.
CallerCars == 0 .. (Len(ontrack) - 1)
SpawnedCars == (DOMAIN cars) \ CallerCars

\* Car c, parked at v, has a next hop that is neither v nor an out-neighbour of v.
StuckHop(c, v) ==
    /\ Car_get_next(cars[c]) # v
    /\ Car_get_next(cars[c]) \notin get_out_neighbors(g, v)

\* vontrack[v][i] comes before vontrack[w][j] in the order of `for v in
\* get_vertices(): for _ in range(len(vontrack[v]))`.
Earlier(v, i, w, j) == v < w \/ (v = w /\ i < j)

\* vontrack[v][i] is the first unlocked parked car with a stuck hop.
FirstStuck(v, i) ==
    /\ cars[vontrack[v][i]].can_move
    /\ StuckHop(vontrack[v][i], v)
    /\ \A w \in Vertices : \A j \in 1 .. Len(vontrack[w]) :
          (cars[vontrack[w][j]].can_move /\ StuckHop(vontrack[w][j], w))
              => ~Earlier(w, j, v, i)

\* ------------------------------------------------------------------ claims
\* C1: no car ever holds more passengers than its size.
C1_Capacity ==
    \A c \in DOMAIN cars : Len(cars[c].inside) <= cars[c].size

\* C1, its case: a parked car is full, a passenger waiting at its vertex has
\* its next hop in the car's route, and ptransfer there leaves it waiting.
C1_Witness ==
    \E v \in Vertices : \E c \in SeqToSet(vontrack[v]), p \in SeqToSet(vinside[v]) :
        /\ cars[c].size >= 1
        /\ Len(cars[c].inside) = cars[c].size
        /\ Passenger_get_next(pgrs[p]) # v
        /\ Contains(cars[c].route, Passenger_get_next(pgrs[p]))
        /\ ptransfer(NetNow, <<v>>).vinside[v] = vinside[v]

\* C2: no car is in two queues, or twice in one, at the same time.
C2_OneQueue ==
    \A c \in DOMAIN cars : Cardinality(CarPlaces(vontrack, venroute, c)) <= 1

\* C2, its case: move_cars has put a car on an edge while another car is parked.
C2_Witness ==
    \E c \in DOMAIN cars, d \in DOMAIN cars :
        /\ c # d
        /\ OnEdge(venroute, c)
        /\ Parked(vontrack, d)

\* C3: every registered car is in exactly one queue, and every registered
\* passenger is in exactly one waiting queue or in exactly one car.
C3_ExactlyOneContainer ==
    /\ \A c \in allcars : Cardinality(CarPlaces(vontrack, venroute, c)) = 1
    /\ \A p \in allpassengers :
          Cardinality(PgrPlaces(vinside, cars, allcars \cup CallerCars, p)) = 1

\* C4: in one move_cars call a car changes container at most once: a car
\* that was on an edge is afterwards on that edge or parked (not on another
\* edge, not gone), and a car that was parked at v is not parked elsewhere.
\* (Stated of every call: the other calls move no car between queues.)
C4_MovesOnce ==
    [][\A c \in DOMAIN cars :
            /\ \A e \in DOMAIN venroute :
                  Contains(venroute[e], c) =>
                      /\ Contains(venroute'[e], c) \/ Parked(vontrack', c)
                      /\ \A f \in DOMAIN venroute : f # e => ~Contains(venroute'[f], c)
            /\ \A v \in Vertices :
                  Contains(vontrack[v], c) =>
                      \A w \in Vertices : w # v => ~Contains(vontrack'[w], c)]_vars

\* C4, its case: phase 1 parked and locked car c at v with a next hop that
\* is an out-neighbour of v; phase 2 passed v (it went on to a later vertex,
\* where car d was stuck) and c is still parked at v.
C4_Witness ==
    \E v \in Vertices : \E c \in SeqToSet(vontrack[v]) :
        /\ ~cars[c].can_move
        /\ cars[c].route # <<>>
        /\ Car_get_next(cars[c]) \in get_out_neighbors(g, v)
        /\ err = "RuntimeWarning"
        /\ \E d \in allcars :
              /\ ~Parked(vontrack, d) /\ ~OnEdge(venroute, d)
              /\ cars[d].cur \in Vertices /\ cars[d].cur > v

\* C5: the unlocked parked car with a stuck hop that move_cars meets is
\* reported (the call raises the stuck error) and is still parked at its
\* vertex after the call.
C5_StuckCarStaysParked ==
    [][(err' = "RuntimeWarning" /\ MoveCars) =>
        \A v \in Vertices : \A i \in 1 .. Len(vontrack[v]) :
            FirstStuck(v, i) => Contains(vontrack'[v], vontrack[v][i])]_vars

\* C6: when a car is stuck, the unlocked parked cars that come later in
\* iteration order and have somewhere to go are still moved off their
\* vertex, and the unlock phase still runs.
C6_StuckCarAbortsOnlyItself ==
    [][(err' = "RuntimeWarning" /\ MoveCarsCall(TRUE)) =>
        /\ \A v \in Vertices : \A i \in 1 .. Len(vontrack[v]) :
              FirstStuck(v, i) =>
                  \A w \in Vertices : \A j \in 1 .. Len(vontrack[w]) :
                      (/\ Earlier(v, i, w, j)
                       /\ cars[vontrack[w][j]].can_move
                       /\ ~StuckHop(vontrack[w][j], w))
                          => ~Contains(vontrack'[w], vontrack[w][j])
        /\ \A c \in DOMAIN cars' :
              (Parked(vontrack', c) \/ OnEdge(venroute', c)) => cars'[c].can_move]_vars

\* C7: the cars spawned are those in a queue plus those destroyed on
\* arrival (removed from allcars).
C7_Conservation ==
    Cardinality(SpawnedCars) =
        Cardinality({c \in SpawnedCars : Parked(vontrack, c) \/ OnEdge(venroute, c)})
        + Cardinality(SpawnedCars \ allcars)

\* The line scenario: the only car ever created is car 0, made by
\* spawn_car.  Where the car is and what is left of its route:
SoleCar == car_total = 1 /\ ontrack = <<>>
ParkedWith(c, v, route) ==
    /\ Contains(vontrack[v], c)
    /\ cars[c].route = route /\ cars[c].cur = v /\ cars[c].can_move
    /\ c \in allcars
OnEdgeWith(c, s, t, route) ==
    /\ Contains(venroute[EdgeIndex(g, s, t)], c)
    /\ cars[c].route = route /\ cars[c].cur = EdgeCur(s, t) /\ cars[c].can_move
    /\ c \in allcars
Destroyed(c) ==
    /\ c \notin allcars
    /\ ~Parked(vontrack, c) /\ ~OnEdge(venroute, c)

\* C8 as written: the car spawned at 0 (A) for 2 (C) is parked at 1 (B)
\* after one move_cars call, at 2 after the next, and destroyed by the third.
C8_OneCallPerHop ==
    [][SoleCar =>
        /\ (ParkedWith(0, 0, <<1, 2>>) /\ MoveCarsCall(TRUE)) =>
                ParkedWith(0, 1, <<2>>)'
        /\ (ParkedWith(0, 1, <<2>>) /\ MoveCarsCall(TRUE)) =>
                ParkedWith(0, 2, <<>>)'
        /\ (ParkedWith(0, 2, <<>>) /\ MoveCarsCall(TRUE)) =>
                Destroyed(0)']_vars

\* C8 amended: each hop takes two calls, one onto the edge and one off it:
\* the car is parked at 1 after the second call, at 2 after the fourth and
\* destroyed by the fifth; no other call moves it.
C8_TwoCallsPerHop ==
    [][SoleCar =>
        /\ (ParkedWith(0, 0, <<1, 2>>) /\ MoveCarsCall(TRUE)) =>
                OnEdgeWith(0, 0, 1, <<1, 2>>)'
        /\ (OnEdgeWith(0, 0, 1, <<1, 2>>) /\ MoveCarsCall(TRUE)) =>
                ParkedWith(0, 1, <<2>>)'
        /\ (ParkedWith(0, 1, <<2>>) /\ MoveCarsCall(TRUE)) =>
                OnEdgeWith(0, 1, 2, <<2>>)'
        /\ (OnEdgeWith(0, 1, 2, <<2>>) /\ MoveCarsCall(TRUE)) =>
                ParkedWith(0, 2, <<>>)'
        /\ (ParkedWith(0, 2, <<>>) /\ MoveCarsCall(TRUE)) =>
                Destroyed(0)'
        /\ (/\ car_total' = car_total
            /\ <<vontrack, venroute, allcars>>' # <<vontrack, venroute, allcars>>) =>
                MoveCars]_vars

\* C8, its case: after the first move_cars call the car spawned at 0 for 2
\* is on the edge 0 -> 1 with both hops still on its route.
C8_Witness ==
    /\ SoleCar
    /\ OnEdgeWith(0, 0, 1, <<1, 2>>)
    /\ err = "none"

\* ------------------------------------------------- get_route on any graph
\* A graph on the vertices: every ordered pair is an edge of weight
\* 1 .. MaxWeight or no edge (0), the edges kept in AllPairs order.
GraphOf(w) ==
    LET keep == {i \in 1 .. Len(AllPairs) : w[i] > 0}
        nth(k) == CHOOSE i \in keep : Cardinality({j \in keep : j < i}) = k - 1
    IN [E |-> [k \in 1 .. Cardinality(keep) |-> AllPairs[nth(k)]],
        W |-> [k \in 1 .. Cardinality(keep) |-> w[nth(k)]]]

InitRoute ==
    /\ \E w \in [1 .. Len(AllPairs) -> 0 .. MaxWeight] :
          NetInit(GraphOf(w).E, GraphOf(w).W, <<>>)
    /\ \E src \in Vertices, dst \in Vertices :
          query = [state |-> "asked", src |-> src, dst |-> dst, route |-> <<>>]
    /\ tick = "free"

\* route = net.get_route(src, dst), and then Car(route): the car is car 0.
GetRoute ==
    /\ query.state = "asked"
    /\ LET route == get_route(g, vweight, query.src, query.dst)
       IN IF route = RouteNotFound
          THEN /\ query' = [query EXCEPT !.state = "failed"]
               /\ err' = "RuntimeError"
               /\ UNCHANGED <<cars, car_total>>
          ELSE /\ query' = [query EXCEPT !.state = "riding", !.route = route]
               /\ cars' = [c \in {car_total} |-> Car_init(route, DefaultSize, FALSE)]
               /\ car_total' = car_total + 1
               /\ err' = "none"
    /\ UNCHANGED <<ontrack, g, vweight, vinside, vontrack, venroute, allcars,
                   allpassengers, pgrs, pgr_total, pgr_dst, tick>>

\* The car takes its next hop and is put there: nextvert = car.take_next(),
\* car.chcur(nextvert), as move_cars_to_vertices does.
TakeNext ==
    /\ query.state = "riding"
    /\ IF cars[0].route = <<>>
       THEN /\ query' = [query EXCEPT !.state = "arrived"]
            /\ UNCHANGED cars
       ELSE /\ cars' = Car_chcur([NetNow EXCEPT !.cars[0] = Car_take_next(@)],
                                 0, Head(cars[0].route), TRUE).cars
            /\ UNCHANGED query
    /\ UNCHANGED <<ontrack, g, vweight, vinside, vontrack, venroute, allcars,
                   allpassengers, pgrs, car_total, pgr_total, err, pgr_dst, tick>>

NextRoute == GetRoute \/ TakeNext

SpecRoute == InitRoute /\ [][NextRoute]_vars

\* The least total weight of a path from s to t of at most k edges
\* (Infinity if there is none).
Least(S) == CHOOSE x \in S : \A y \in S : x <= y

RECURSIVE DistWithin(_, _, _, _, _)
DistWithin(E, W, s, t, k) ==
    IF k = 0 THEN (IF s = t THEN 0 ELSE Infinity)
    ELSE Least({DistWithin(E, W, s, t, k - 1)}
               \cup {Least({Infinity, DistWithin(E, W, s, E[i][1], k - 1) + W[i]}) :
                       i \in {j \in 1 .. Len(E) : E[j][2] = t}})

MinDist(E, W, s, t) == DistWithin(E, W, s, t, NumVertices - 1)

\* Every consecutive pair of the route is an edge of the graph.
FollowsEdges(E, route) ==
    \A i \in 1 .. (Len(route) - 1) : EdgeIndex(E, route[i], route[i + 1]) # 0

RECURSIVE RouteWeight(_, _, _)
RouteWeight(E, W, route) ==
    IF Len(route) < 2 THEN 0
    ELSE W[EdgeIndex(E, route[1], route[2])] + RouteWeight(E, W, Tail(route))

\* C9: a route that get_route returns has the least total weight of all
\* paths from src to dst.
C9_RouteIsShortest ==
    query.state \in {"riding", "arrived"} =>
        RouteWeight(g, vweight, query.route) = MinDist(g, vweight, query.src, query.dst)

\* C10: a route that get_route returns starts at src, ends at dst and
\* follows edges of the graph, and the car built from it that has taken all
\* its hops has an empty route and is positioned at dst.
C10_RouteRoundTrip ==
    /\ query.state \in {"riding", "arrived"} =>
          /\ Head(query.route) = query.src
          /\ Last(query.route) = query.dst
          /\ FollowsEdges(g, query.route)
    /\ query.state = "arrived" =>
          /\ cars[0].route = <<>>
          /\ cars[0].cur = query.dst

\* C10, its case: a route of two hops was returned and the car has taken both.
C10_Witness ==
    /\ query.state = "arrived"
    /\ Len(query.route) = 3
    /\ cars[0].cur = query.dst

\* dst can be reached from src along directed edges of g.
Reachable(E, W, src, dst) == MinDist(E, W, src, dst) < Infinity

\* C11: get_route ends every call: it raises the route-not-found error
\* exactly when dst is not reachable from src, and returns a route
\* otherwise, the one-element route when src = dst.
C11_RouteOrError ==
    query.state # "asked" =>
        /\ query.state = "failed" <=> ~Reachable(g, vweight, query.src, query.dst)
        /\ query.state = "failed" => err = "RuntimeError"
        /\ query.state # "failed" => query.route # RouteNotFound
        /\ query.src = query.dst => query.route = <<query.src>>

\* C11, its case: the graph has edges out of src, yet none leads to dst,
\* and the call has raised.
C11_Witness ==
    /\ query.state = "failed"
    /\ get_out_neighbors(g, query.src) # {}
    /\ err = "RuntimeError"

\* C12: no call makes the remaining route of a car or of a passenger
\* longer, and the remaining route of a repeating car keeps its length.
C12_RouteNeverGrows ==
    [][/\ \A c \in DOMAIN cars :
             /\ Len(cars'[c].route) <= Len(cars[c].route)
             /\ cars[c].repeat => Len(cars'[c].route) = Len(cars[c].route)
       /\ \A p \in DOMAIN pgrs :
             Len(pgrs'[p].route) <= Len(pgrs[p].route)]_vars

\* C12, its case: a repeating car has taken a hop (it is parked away from
\* where it started and its route has turned), and a passenger riding a
\* car has had a hop taken off its route.
C12_Witness ==
    /\ \E c \in CallerCars :
          /\ cars[c].repeat
          /\ Parked(vontrack, c)
          /\ cars[c].cur # Head(ontrack[c + 1].route)
          /\ cars[c].route # Tail(ontrack[c + 1].route)
          /\ Len(cars[c].route) = Len(ontrack[c + 1].route) - 1
    /\ \E p \in DOMAIN pgrs : \E c \in DOMAIN cars :
          /\ Contains(cars[c].inside, p)
          /\ pgrs[p].route = <<>>

C14_DestroyedAtDestination ==
    [][\A p \in allpassengers \ allpassengers' :
          Contains(vinside[pgr_dst[p]], p)]_vars

\* C15: when move_cars destroys a car that arrived at v, every passenger
\* that was onboard is afterwards waiting at v or is itself destroyed.
C15_ArrivedCarEjectsAll ==
    [][\A c \in allcars \ allcars' :
          \A p \in SeqToSet(cars[c].inside) :
              Contains(vinside'[cars[c].cur], p) \/ p \notin allpassengers']_vars

\* Car c of net N has a free seat and has `hop` in its remaining route.
Qualifies(N, c, hop) ==
    /\ Len(N.cars[c].inside) < N.cars[c].size
    /\ Contains(N.cars[c].route, hop)

\* The position in vontrack[v] of the first car that qualifies, 0 if none.
FirstFit(N, v, hop) ==
    LET fit == {i \in 1 .. Len(N.vontrack[v]) : Qualifies(N, N.vontrack[v][i], hop)}
    IN IF fit = {} THEN 0 ELSE Least(fit)

\* The net at the moment ptransfer at v takes the first waiting passenger
\* off the queue: the parked cars have ejected.
AfterEject(v) ==
    LET N1 == EjectLoop(NetNow, v, 1)
    IN [N1 EXCEPT !.vinside[v] = Tail(@)]

\* C16: a waiting passenger whose next hop is not v boards the first car in
\* vontrack[v] order that has a free seat and has the hop in its remaining
\* route, and no other car; it boards none if no car qualifies.  Where it
\* is the only one waiting, that is all the call ptransfer([v]) does to the
\* cars.
C16_FirstFit ==
    \A v \in Vertices :
        (vinside[v] # <<>> /\ EjectLoop(NetNow, v, 1).err = "none") =>
            LET N == AfterEject(v)
                p == Head(vinside[v])
                hop == Passenger_get_next(N.pgrs[p])
                ff == FirstFit(N, v, hop)
                r == BoardLoop(N, p, v, hop, 1)
                boarded == [N.cars EXCEPT ![N.vontrack[v][ff]].inside = Append(@, p)]
            IN hop # v =>
                /\ r.found <=> ff # 0
                /\ ff # 0 => r.net.cars = boarded
                /\ ff = 0 => r.net.cars = N.cars
                /\ Len(vinside[v]) = 1 =>
                      ptransfer(NetNow, <<v>>).cars = IF ff # 0 THEN boarded ELSE N.cars

\* C16, its case: the passenger rides the second car parked at v, the car
\* before it in the queue being full or without the passenger's next hop.
C16_Witness ==
    \E v \in Vertices : \E i \in 1 .. Len(vontrack[v]) : \E j \in 1 .. (i - 1) :
        \E p \in SeqToSet(cars[vontrack[v][i]].inside) :
            /\ p \in allpassengers
            /\ Passenger_get_next(pgrs[p]) # v
            /\ Contains(cars[vontrack[v][i]].route, Passenger_get_next(pgrs[p]))
            /\ ~Qualifies(NetNow, vontrack[v][j], Passenger_get_next(pgrs[p]))

\* Every car parked at v in net N with `hop` in its remaining route is full.
AllFull(N, v, hop) ==
    \A c \in SeqToSet(N.vontrack[v]) :
        Contains(N.cars[c].route, hop) => Len(N.cars[c].inside) >= N.cars[c].size

\* C17 as written: if, when ptransfer([v]) is called, every car parked at v
\* with the waiting passenger's next hop in its route is full, the call
\* raises nothing, the passenger is still waiting at v and registered, and
\* (no one else waiting at v) no car's onboard count changes.
C17_FullAtCall ==
    \A v \in Vertices : \A p \in SeqToSet(vinside[v]) :
        (Passenger_get_next(pgrs[p]) # v /\ AllFull(NetNow, v, Passenger_get_next(pgrs[p]))) =>
            LET R == ptransfer(NetNow, <<v>>)
            IN /\ R.err = "none"
               /\ Contains(R.vinside[v], p)
               /\ p \in R.allpassengers
               /\ Len(vinside[v]) = 1 =>
                     \A c \in DOMAIN cars : Len(R.cars[c].inside) = Len(cars[c].inside)

\* C17 amended: the cars are full once the parked cars have ejected (a seat
\* freed by an ejection in the same call can be taken).  Then the call
\* raises nothing, the passenger is still waiting at v, registered and in no
\* car; and where it is the only one waiting, no car takes anyone on.
C17_FullAfterEject ==
    \A v \in Vertices : \A p \in SeqToSet(vinside[v]) :
        LET N1 == EjectLoop(NetNow, v, 1)
            hop == Passenger_get_next(pgrs[p])
            R == ptransfer(NetNow, <<v>>)
        IN (hop # v /\ N1.err = "none" /\ AllFull(N1, v, hop)) =>
               /\ R.err = "none"
               /\ Contains(R.vinside[v], p)
               /\ p \in R.allpassengers
               /\ \A c \in DOMAIN cars : ~Contains(R.cars[c].inside, p)
               /\ Len(vinside[v]) = 1 =>
                     \A c \in DOMAIN cars : R.cars[c].inside = N1.cars[c].inside

\* C17, its case: a car of capacity 0 is parked at v with the next hop of a
\* passenger waiting there in its route, and ptransfer has returned.
C17_Witness ==
    \E v \in Vertices : \E c \in SeqToSet(vontrack[v]), p \in SeqToSet(vinside[v]) :
        /\ cars[c].size = 0
        /\ Passenger_get_next(pgrs[p]) # v
        /\ Contains(cars[c].route, Passenger_get_next(pgrs[p]))
        /\ AllFull(NetNow, v, Passenger_get_next(pgrs[p]))
        /\ p \in allpassengers
        /\ err = "none"
        /\ ptransfer(NetNow, <<v>>).vinside = vinside

C19_EjectedArrivesAtOnce ==
    [][\A v \in Vertices : \A c \in SeqToSet(vontrack[v]) :
          \A p \in SeqToSet(cars[c].inside) :
              (pgrs[p].route = <<>> /\ ~Contains(cars'[c].inside, p)) =>
                  /\ p \notin allpassengers'
                  /\ ~Contains(vinside'[v], p)]_vars

\* C20: ptransfer(targets) with a list of vertices from the caller, the
\* empty list included (<<>>), leaves alone the waiting queue of every
\* vertex not listed and the onboard passengers of every car parked there.
C20_OnlyListedVertices ==
    \A targets \in TargetInputs :
        LET R == ptransfer(NetNow, targets)
        IN \A v \in Vertices \ SeqToSet(targets) :
              /\ R.vinside[v] = vinside[v]
              /\ \A c \in SeqToSet(vontrack[v]) : R.cars[c].inside = cars[c].inside

\* Car c is in another queue after the step than before it.
Moved(c) ==
    /\ c \in DOMAIN cars
    /\ CarPlaces(vontrack, venroute, c) # {}
    /\ CarPlaces(vontrack', venroute', c) # {}
    /\ \A a \in CarPlaces(vontrack, venroute, c), b \in CarPlaces(vontrack', venroute', c) :
          <<a[1], a[2]>> # <<b[1], b[2]>>

\* C21: a call move_cars(unlock=False) that returns leaves every car it
\* moved locked (can_move = False).
C21_NoUnlockKeepsLocks ==
    [][\A c \in DOMAIN cars :
          (Moved(c) /\ err' = "none" /\ MoveCarsCall(FALSE)) => ~cars'[c].can_move]_vars

\* The keyword arguments dst=d of a spawn.
DstKw(d) == [kind |-> "dst", route |-> <<>>, dst |-> d]

\* C22: spawn_car and spawn_passenger with amount=n and dst=d create n
\* entities at target, and d is the last vertex of the route of each.
C22_DstForAll ==
    \A target \in Vertices, d \in Vertices, amount \in 1 .. MaxAmount :
        \A rnd \in RandomInputs(target, amount, DstKw(d)) :
            LET C == spawn_car(NetNow, target, amount, DstKw(d), rnd, 1)
                P == spawn_passenger(NetNow, target, amount, DstKw(d), rnd, 1)
            IN /\ C.err = "none" =>
                     /\ C.car_total = car_total + amount
                     /\ \A c \in car_total .. (C.car_total - 1) :
                           /\ Contains(C.vontrack[target], c)
                           /\ Car_get_last(C.cars[c]) = d
               /\ P.err = "none" =>
                     /\ P.pgr_total = pgr_total + amount
                     /\ \A p \in pgr_total .. (P.pgr_total - 1) :
                           /\ Contains(P.vinside[target], p)
                           /\ Passenger_get_last(P.pgrs[p]) = d

\* C23: the remaining route of a car built with repeat=True holds every
\* vertex of the route it was built with, the starting vertex included.
C23_RepeatKeepsVertices ==
    \A c \in CallerCars :
        cars[c].repeat =>
            SeqToSet(ontrack[c + 1].route) \subseteq SeqToSet(cars[c].route)

C25_ArrivedOnlyWhenRouteEmpty ==
    [][\A c \in allcars \ allcars' : cars[c].route = <<>>]_vars

\* The route with its front hop taken off (an empty route stays empty).
Popped(route) == IF route = <<>> THEN <<>> ELSE Tail(route)

IndexOf(s, x) == CHOOSE i \in 1 .. Len(s) : s[i] = x

\* C27: ptransfer keeps the order of each waiting queue: two passengers
\* waiting at v before and after the call are in the same order; of two
\* waiting for the same hop the later one does not board while the earlier
\* one is left waiting; the passengers ejected by the call are behind all
\* those who were waiting already.
C27_QueueOrderKept ==
    \A targets \in TargetInputs :
        LET R == ptransfer(NetNow, targets)
        IN \A v \in Vertices :
              LET old == SeqToSet(vinside[v])
                  new == SeqToSet(R.vinside[v])
              IN /\ \A p \in old \cap new : \A q \in old \cap new :
                       IndexOf(vinside[v], p) < IndexOf(vinside[v], q) =>
                           IndexOf(R.vinside[v], p) < IndexOf(R.vinside[v], q)
                 /\ \A p \in old \cap new : \A q \in new \ old :
                       IndexOf(R.vinside[v], p) < IndexOf(R.vinside[v], q)
                 /\ \A p \in old \cap new : \A q \in old \ new :
                       (/\ IndexOf(vinside[v], p) < IndexOf(vinside[v], q)
                        /\ Passenger_get_next(pgrs[p]) = Passenger_get_next(pgrs[q]))
                           => q \notin R.allpassengers

\* C27, its case: a passenger put off a car at v, its route used up short
\* of its destination, waits behind a passenger that was waiting there.
C27_Witness ==
    \E v \in Vertices :
        /\ Len(vinside[v]) = 2
        /\ pgrs[vinside[v][1]].route # <<>>
        /\ pgrs[vinside[v][2]].route = <<>>
        /\ pgrs[vinside[v][2]].cur = v
        /\ pgr_dst[vinside[v][2]] # v
        /\ \E c \in SeqToSet(vontrack[v]) : cars[c].cur = v

\* Passenger p, onboard car c parked at v, is put off by ptransfer(targets).
Ejected(R, v, c, p) ==
    /\ R.err = "none"
    /\ Contains(cars[c].inside, p)
    /\ ~Contains(R.cars[c].inside, p)

\* C28: a passenger ejected at v by a ptransfer call boards, in
\* that call, a car parked at v that has a free seat and the passenger's
\* next hop in its route.
C28_EjectedBoardsAtOnce ==
    \A targets \in TargetInputs :
        LET R == ptransfer(NetNow, targets)
        IN \A v \in Vertices : \A c \in SeqToSet(vontrack[v]) :
              \A p \in SeqToSet(cars[c].inside) :
                  (/\ Ejected(R, v, c, p)
                   /\ \E d \in SeqToSet(vontrack[v]) :
                         Qualifies(R, d, Passenger_get_next(pgrs[p])))
                      => \E d \in SeqToSet(vontrack[v]) : Contains(R.cars[d].inside, p)


\* C29: a car on edge (s, t) has t at the front of its route, and a
\* move_cars call takes it off the edge and parks it in vontrack[t] and
\* nowhere else, so that it is on an edge for one call only.
C29_OneTickOnEdge ==
    [][\A e \in DOMAIN venroute : \A c \in SeqToSet(venroute[e]) :
          /\ cars[c].route # <<>>
          /\ Head(cars[c].route) = g[e][2]
          /\ (\E a \in CarPlaces(vontrack', venroute', c) : <<a[1], a[2]>> # <<0, g[e][2]>>)
                => ~MoveCars
          /\ CarPlaces(vontrack', venroute', c) = {} => ~MoveCars]_vars


\* ---------------------------------------------------------------- liveness
\* A move_cars call now would leave the net as it is (`unlock` is not read).
MoveCarsIdle ==
    LET R == move_cars(NetNow, TRUE)
    IN /\ R.err = err
       /\ R.cars = cars
       /\ R.pgrs = pgrs
       /\ R.vontrack = vontrack
       /\ R.venroute = venroute
       /\ R.vinside = vinside
       /\ R.allcars = allcars
       /\ R.allpassengers = allpassengers

\* The simulation calls move_cars again and again: a move_cars call that
\* would change the net is not put off forever.  This is weak fairness of
\* MoveCars, with "no MoveCars step can change the net" written as the
\* state predicate MoveCarsIdle.
SpecLive == Spec /\ ([]<>MoveCarsIdle \/ []<><<MoveCars>>_vars)

\* Car c is a registered, non-repeating car in a queue whose remaining route
\* is a path of the graph from where the car is, as every route is that
\* spawn_car gets from get_route for a destination.
OnWay(c) ==
    /\ c \in allcars
    /\ ~cars[c].repeat
    /\ \/ \E v \in Vertices :
             Contains(vontrack[v], c) /\ FollowsEdges(g, <<v>> \o cars[c].route)
       \/ \E e \in DOMAIN venroute :
             /\ Contains(venroute[e], c)
             /\ cars[c].route # <<>>
             /\ Head(cars[c].route) = g[e][2]
             /\ FollowsEdges(g, cars[c].route)

\* Car c is in no queue and not registered.
Gone(c) == c \notin allcars /\ CarPlaces(vontrack, venroute, c) = {}

\* The step takes car c one stage on: from a vertex onto the edge to its
\* next hop, from an edge into the edge's end vertex, or, parked with its
\* route used up, out of the net.
Advanced(c) ==
    \/ \E v \in Vertices :
          /\ Contains(vontrack[v], c)
          /\ IF cars[c].route = <<>>
             THEN c \notin allcars' /\ CarPlaces(vontrack', venroute', c) = {}
             ELSE \E e \in DOMAIN venroute' :
                     /\ g[e] = <<v, Head(cars[c].route)>>
                     /\ Contains(venroute'[e], c)
    \/ \E e \in DOMAIN venroute :
          /\ Contains(venroute[e], c)
          /\ Contains(vontrack'[g[e][2]], c)

\* C30, eventual destruction: a car on its way is in the end out of the net.
C30_EventuallyGone ==
    \A c \in 0 .. (MaxCars - 1) : [](OnWay(c) => <>Gone(c))

\* C30, timing: whatever else is in the net, every move_cars call takes a
\* car on its way one stage on, so that a car h hops from its destination
\* is parked there after 2h calls and out of the net after 2h + 1.
C30_StagePerCall ==
    [][\A c \in DOMAIN cars : (OnWay(c) /\ ~Advanced(c)) => ~MoveCars]_vars


\* C31: a car that spawn_car creates for a destination is on its way (its
\* route is a path of the graph from where it is); a car on its way stays
\* so as long as it is in a queue, is never dropped from the queues while
\* registered (the stuck branch), and whenever it is parked and unlocked
\* with a non-empty route its next hop is an out-neighbour of its vertex.
C31_NeverStuck ==
    [][/\ \A c \in DOMAIN cars :
             /\ (OnWay(c) /\ CarPlaces(vontrack', venroute', c) # {}) => OnWay(c)'
             /\ (OnWay(c) /\ CarPlaces(vontrack', venroute', c) = {}) => c \notin allcars'
             /\ \A v \in Vertices :
                   (/\ OnWay(c)
                    /\ Contains(vontrack[v], c)
                    /\ cars[c].can_move
                    /\ cars[c].route # <<>>)
                       => Car_get_next(cars[c]) \in get_out_neighbors(g, v)
       /\ \A c \in (DOMAIN cars') \ (DOMAIN cars) :
             (\E target \in Vertices, d \in Vertices, amount \in 1 .. MaxAmount :
                 \E rnd \in RandomInputs(target, amount, DstKw(d)) :
                     Becomes(spawn_car(NetNow, target, amount, DstKw(d), rnd, 1)))
                => OnWay(c)']_vars

\* C31, its case: a car on its way has come to the middle vertex (the
\* passenger onboard has used up its route on the ride) and is parked
\* there unlocked with a hop left, after a call that a stuck car aborted.
C31_Witness ==
    \E c \in allcars, d \in allcars :
        /\ OnWay(c)
        /\ \E p \in SeqToSet(cars[c].inside) : pgrs[p].route = <<>>
        /\ Contains(vontrack[1], c)
        /\ cars[c].cur = 1
        /\ cars[c].can_move
        /\ cars[c].route # <<>>
        /\ d # c
        /\ CarPlaces(vontrack, venroute, d) = {}
        /\ err = "RuntimeWarning"


\* ------------------------------------------------------ the caller's loop
\* A caller that spawns cars for destinations only (their routes are
\* get_route's), gives the net no cars of its own, and after every
\* move_cars call makes a ptransfer call over all vertices before it calls
\* move_cars again; spawns and further ptransfer calls come at any time.
InitLoop ==
    /\ NetInit(LineEdges, UnitWeights(LineEdges), <<>>)
    /\ query = NoQuery
    /\ tick = "move"

LoopSpawnCar ==
    \E target \in Vertices, amount \in 1 .. MaxAmount :
      \E kw \in {k \in KwInputs(target) : k.kind # "route"} :
       \E rnd \in RandomInputs(target, amount, kw) :
        /\ car_total + amount <= MaxCars
        /\ car_total + pgr_total + amount <= MaxEntities
        /\ Becomes(spawn_car(NetNow, target, amount, kw, rnd, 1))
        /\ err' = spawn_car(NetNow, target, amount, kw, rnd, 1).err
        /\ UNCHANGED tick

LoopSpawnPassenger ==
    \E target \in Vertices, amount \in 1 .. MaxAmount :
      \E kw \in KwInputs(target) :
       \E rnd \in RandomInputs(target, amount, kw) :
        /\ pgr_total + amount <= MaxPgrs
        /\ car_total + pgr_total + amount <= MaxEntities
        /\ Becomes(spawn_passenger(NetNow, target, amount, kw, rnd, 1))
        /\ err' = spawn_passenger(NetNow, target, amount, kw, rnd, 1).err
        /\ UNCHANGED tick

LoopMoveCars ==
    /\ tick = "move"
    /\ Becomes(move_cars(NetNow, TRUE))
    /\ err' = move_cars(NetNow, TRUE).err
    /\ tick' = "transfer"

\* ptransfer(targets); only the call without targets goes over all vertices.
LoopPTransfer ==
    \E targets \in TargetInputs :
        /\ Becomes(ptransfer(NetNow, targets))
        /\ err' = ptransfer(NetNow, targets).err
        /\ tick' = IF targets = <<>> THEN "move" ELSE tick

NextLoop == LoopSpawnCar \/ LoopSpawnPassenger \/ LoopMoveCars \/ LoopPTransfer

SpecLoop == InitLoop /\ [][NextLoop]_vars

\* C32: in the caller's loop a car that move_cars destroys has nobody
\* onboard, and every registered passenger is in a waiting queue or onboard
\* a car that is in a queue: no passenger is lost with a destroyed car.
C32_DestroyedCarsAreEmpty ==
    [][/\ \A c \in allcars \ allcars' : cars[c].inside = <<>>
       /\ \A p \in allpassengers' :
             PgrPlaces(vinside', cars',
                       {c \in DOMAIN cars' : CarPlaces(vontrack', venroute', c) # {}},
                       p) # {}]_vars

\* C32, its case: move_cars has brought a car with a passenger onboard to
\* its destination, and the ptransfer call over all vertices is due.
C32_Witness ==
    \E v \in Vertices : \E c \in SeqToSet(vontrack[v]) :
        /\ tick = "transfer"
        /\ c \in allcars
        /\ cars[c].cur = v
        /\ cars[c].route = <<>>
        /\ cars[c].inside # <<>>


\* C33: every car in vontrack[v] has cur = v, every car in venroute[(s, t)]
\* has cur = 's-t', every passenger in vinside[v] has cur = v, every
\* passenger onboard a car in a queue has the cur of the car, and so no
\* ptransfer call raises the unexpected-location error of Car.peject.
C33_PositionsConsistent ==
    /\ \A v \in Vertices :
          /\ \A c \in SeqToSet(vontrack[v]) : cars[c].cur = v
          /\ \A p \in SeqToSet(vinside[v]) : pgrs[p].cur = v
    /\ \A e \in DOMAIN venroute : \A c \in SeqToSet(venroute[e]) :
          cars[c].cur = EdgeCur(g[e][1], g[e][2])
    /\ \A c \in DOMAIN cars :
          CarPlaces(vontrack, venroute, c) # {} =>
              \A p \in SeqToSet(cars[c].inside) : pgrs[p].cur = cars[c].cur
    /\ \A targets \in TargetInputs : ptransfer(NetNow, targets).err # "RuntimeError"


\* C33, its case: a car that was parked and has taken a passenger onboard
\* is on an edge, and a passenger that a car has put off waits at a vertex.
C33_Witness ==
    /\ \E e \in DOMAIN venroute : \E c \in SeqToSet(venroute[e]) :
          /\ cars[c].inside # <<>>
          /\ cars[c].cur = EdgeCur(g[e][1], g[e][2])
    /\ \E v \in Vertices : \E p \in SeqToSet(vinside[v]) :
          /\ pgrs[p].cur = v
          /\ pgr_dst[p] # v
          /\ pgrs[p].route = <<>>


\* C34: when ptransfer visits vertex v and a car parked at v, repeating or
\* not, has a passenger onboard whose route is used up, the call puts the
\* passenger off into vinside[v], and the next ptransfer call on v
\* destroys it.
C34_ExhaustedLeavesCar ==
    \A targets \in TargetInputs :
        LET R == ptransfer(NetNow, targets)
            visited == IF targets = <<>> THEN Vertices ELSE SeqToSet(targets)
        IN \A v \in visited : \A c \in SeqToSet(vontrack[v]) :
              \A p \in SeqToSet(cars[c].inside) :
                  pgrs[p].route = <<>> =>
                      /\ ~Contains(R.cars[c].inside, p)
                      /\ Contains(R.vinside[v], p)
                      /\ p \notin ptransfer(R, <<v>>).allpassengers

====
